---------------------------- MODULE Spec2Model ----------------------------
(***************************************************************************)
(* The Cassandra locking recipe of silverberg/lock.py: BasicLock (write,   *)
(* read, verify, cleanup, bounded retry on a timer, release) and with_lock,*)
(* run by two engines against one lock table.  Every storage statement is  *)
(* one atomic step of the table and may return an error; a record may      *)
(* expire by its TTL at any time.                                          *)
(***************************************************************************)
EXTENDS Integers, Sequences, FiniteSets

\* ------------------------------------------------------------- bounds
MaxRetry == 1      \* each engine's max_retry is drawn from 0..MaxRetry
MaxTimeout == 2    \* the callers' timeout is drawn from 1..MaxTimeout

Engines == {"A", "B"}  \* named in the order of their claim ids
LockIds == {"jobs-queue", "other"}
ClaimIds == {1, 2}    \* uuid1 values, in creation order
Modes == {"with_lock", "direct"}

\* the failures a deferred can carry
StorageErrors == {"InsertFailed", "SelectFailed", "DeleteFailed"}
Failures == StorageErrors \cup {"BusyLockError", "IndexError", "FuncError"}

VARIABLES
    claim_id,     \* self._claim_id, set once in __init__
    lock_id,      \* self._lock_id
    mode,         \* how the engine is driven: by with_lock or by direct calls
    max_retry,    \* acquire's max_retry argument
    timeout,      \* acquire's timeout argument
    table,        \* the lock table: a set of rows [lockId, claimId]
    pc,           \* where each engine's callback chain stands
    response,     \* the rows a SELECT returned, until _verify_lock has used them
    retries,      \* retries[0] of the running acquire() call
    elapsed,      \* clock time passed since the engine's pending deferLater
    acq_result,   \* what acquire()'s deferred fired with ("none" before)
    wl_result,    \* what with_lock's deferred fired with ("none" before)
    func_result,  \* outcome of the unit of work ("none" before)
    func_calls,   \* number of invocations of func
    releases,     \* number of calls of with_lock's release_lock
    executed,     \* the statements the engine has handed to client.execute
    pending,      \* the statement the client is executing for the engine
    attempts,     \* number of _acquire_lock calls of the acquire() call
    attempt,      \* outcome of the engine's last _acquire_lock cycle
    timers,       \* number of deferLater calls of the acquire() call
    waited,       \* clock time the acquire() call has spent on its timers
    rel_result,   \* what the caller's last release() deferred fired with
    first_writer, \* per lock name, the engine whose INSERT landed first
    created,      \* whether the lock table exists in the keyspace
    sch_pc,       \* the schema statement the client is executing for a caller
    create_failure, \* the failure the caller's last CREATE TABLE returned
    es_result,    \* what the caller's last ensure_schema deferred fired with
    ds_result     \* what the caller's last drop_schema deferred fired with

params == <<claim_id, lock_id, mode, max_retry, timeout>>
store == <<table, first_writer>>
chain == <<pc, response, retries, elapsed, executed, pending>>
results == <<acq_result, wl_result, func_result, func_calls, releases>>
history == <<attempt, attempts, timers, waited, rel_result>>
schema == <<created, sch_pc, create_failure, es_result, ds_result>>
vars == <<params, store, chain, results, history, schema>>

\* ------------------------------------------------------------- storage
Row(l, c) == [lockId |-> l, claimId |-> c]

OwnRow(e) == Row(lock_id[e], claim_id[e])

Insert(t, row) == t \cup {row}

\* faulty variant of Delete: the DELETE drops every claim of the lock name
DeleteWholeLock(t, row) == {r \in t : r.lockId # row.lockId}

Delete(t, row) == t \ {row}

\* faulty variant of Select: ORDER BY "claimId" DESC, newest claim first
RECURSIVE NewestFirst(_)
NewestFirst(rows) ==
    IF rows = {} THEN <<>>
    ELSE LET first == CHOOSE r \in rows : \A s \in rows : r.claimId >= s.claimId
         IN  <<first>> \o NewestFirst(rows \ {first})

SelectNewestFirst(t, l) == NewestFirst({r \in t : r.lockId = l})

RECURSIVE OrderByClaimId(_)
OrderByClaimId(rows) ==
    IF rows = {} THEN <<>>
    ELSE LET first == CHOOSE r \in rows : \A s \in rows : r.claimId <= s.claimId
         IN  <<first>> \o OrderByClaimId(rows \ {first})

Select(t, l) == OrderByClaimId({r \in t : r.lockId = l})

\* ------------------------------------------------------------- statements
\* faulty variant of InsertStmt: a fresh uuid1 for every attempt
InsertStmtFreshClaim(e) ==
    [stmt |-> "INSERT", lockId |-> lock_id[e], claimId |-> claim_id[e] + attempts[e]]

InsertStmt(e) == [stmt |-> "INSERT", lockId |-> lock_id[e], claimId |-> claim_id[e]]

SelectStmt(e) == [stmt |-> "SELECT", lockId |-> lock_id[e]]

\* faulty variant of DeleteStmt: the DELETE is keyed by the lock name alone and
\* takes the other claim of the lock
DeleteStmtOtherClaim(e) ==
    [stmt |-> "DELETE", lockId |-> lock_id[e],
     claimId |-> CHOOSE c \in ClaimIds : c # claim_id[e]]

DeleteStmt(e) == [stmt |-> "DELETE", lockId |-> lock_id[e], claimId |-> claim_id[e]]

\* client.execute(query, args, QUORUM)
Execute(e, stmt) ==
    /\ executed' = [executed EXCEPT ![e] = @ \cup {stmt}]
    /\ pending' = [pending EXCEPT ![e] = stmt]

StmtRow(s) == Row(s.lockId, s.claimId)

\* ------------------------------------------------------------- decisions
\* faulty variant of Trap: the errback handles every failure
TrapAny(failure, exc) == TRUE

\* failure.trap(exc): the errback goes on only for a failure of class exc
Trap(failure, exc) == failure = exc

\* faulty variants of RetryAllowed: one retry too few, one too many
RetryAllowedStrict(r, m) == r < m

RetryAllowedOnceMore(r, m) == r <= m + 1

\* lock.py:160, on the already incremented counter
RetryAllowed(r, m) == r <= m

\* faulty variant of Due: the delay is ignored, the call is due at once
DueAtOnce(e) == TRUE

\* task.deferLater(reactor, timeout, ...): the reactor makes the call once
\* its clock has advanced by the delay, not before
Due(e) == elapsed[e] >= timeout[e]

\* faulty variant of VerifyOk: the own claim anywhere in the response
VerifyOkAnyRow(rows, c) == \E i \in 1..Len(rows) : rows[i].claimId = c

\* lock.py:77; only evaluated on a non-empty response
VerifyOk(rows, c) == rows[1].claimId = c

\* ------------------------------------------------------------- schema
\* the failures client.execute can return for a schema statement
NoFailure == [class |-> "none", why |-> "none"]

AlreadyExists == [class |-> "InvalidRequestException", why |-> "table already exists"]

InvalidRequest == [class |-> "InvalidRequestException", why |-> "invalid request"]

NoSuchTable == [class |-> "InvalidRequestException", why |-> "no such table"]

TimedOut == [class |-> "TimedOutException", why |-> "timed out"]

SchemaFailures == {AlreadyExists, InvalidRequest, NoSuchTable, TimedOut}

\* what the storage can answer to CREATE TABLE: "created" or a failure
CreateTable(exists) ==
    IF exists THEN {AlreadyExists, InvalidRequest, TimedOut}
    ELSE {NoFailure, InvalidRequest, TimedOut}

\* what the storage can answer to DROP TABLE
DropTable(exists) ==
    IF exists THEN {NoFailure, TimedOut} ELSE {NoSuchTable, TimedOut}

\* ensure_schema's _errback: the trapped failure is replaced by None, any
\* other failure goes on to the caller
SchemaErrback(failure) ==
    IF Trap(failure.class, "InvalidRequestException") THEN "ok" ELSE failure.why

\* ------------------------------------------------------------- initial state
TypeOK ==
    /\ claim_id \in [Engines -> ClaimIds]
    /\ lock_id \in [Engines -> LockIds]
    /\ mode \in [Engines -> Modes]
    /\ max_retry \in [Engines -> 0..MaxRetry]
    /\ timeout \in [Engines -> 1..MaxTimeout]
    /\ table \subseteq [lockId : LockIds, claimId : ClaimIds]
    /\ pc \in [Engines -> {"idle", "write", "read", "verify", "cleanup", "wait",
                           "acquired", "failed", "work", "release", "done",
                           "releasing", "released"}]
    /\ retries \in [Engines -> 0..(MaxRetry + 1)]
    /\ acq_result \in [Engines -> {"none", "ok"} \cup Failures]
    /\ wl_result \in [Engines -> {"none", "value"} \cup Failures]
    /\ func_result \in [Engines -> {"none", "value", "FuncError"}]
    /\ attempt \in [Engines -> {"none", "running", "ok"} \cup Failures]
    /\ rel_result \in [Engines -> {"none", "ok", "DeleteFailed"}]
    /\ first_writer \in [LockIds -> Engines \cup {"nobody"}]
    /\ waited \in [Engines -> Nat]
    /\ created \in BOOLEAN
    /\ sch_pc \in [Engines -> {"idle", "create", "drop"}]
    /\ create_failure \in [Engines -> SchemaFailures \cup {NoFailure}]
    /\ es_result \in [Engines -> {"none", "ok"} \cup {f.why : f \in SchemaFailures}]
    /\ ds_result \in [Engines -> {"none", "ok"} \cup {f.why : f \in SchemaFailures}]

Init ==
    /\ claim_id = [e \in Engines |-> IF e = "A" THEN 1 ELSE 2]
    /\ lock_id \in {f \in [Engines -> LockIds] : f["A"] = "jobs-queue"}
    /\ mode \in [Engines -> Modes]
    /\ max_retry \in [Engines -> 0..MaxRetry]
    /\ timeout \in {[e \in Engines |-> t] : t \in 1..MaxTimeout}
    /\ table = {}
    /\ pc = [e \in Engines |-> "idle"]
    /\ response = [e \in Engines |-> <<>>]
    /\ retries = [e \in Engines |-> 0]
    /\ elapsed = [e \in Engines |-> 0]
    /\ executed = [e \in Engines |-> {}]
    /\ pending = [e \in Engines |-> [stmt |-> "none"]]
    /\ attempts = [e \in Engines |-> 0]
    /\ acq_result = [e \in Engines |-> "none"]
    /\ wl_result = [e \in Engines |-> "none"]
    /\ func_result = [e \in Engines |-> "none"]
    /\ func_calls = [e \in Engines |-> 0]
    /\ releases = [e \in Engines |-> 0]
    /\ attempt = [e \in Engines |-> "none"]
    /\ timers = [e \in Engines |-> 0]
    /\ waited = [e \in Engines |-> 0]
    /\ rel_result = [e \in Engines |-> "none"]
    /\ first_writer = [l \in LockIds |-> "nobody"]
    /\ created = TRUE
    /\ sch_pc = [e \in Engines |-> "idle"]
    /\ create_failure = [e \in Engines |-> NoFailure]
    /\ es_result = [e \in Engines |-> "none"]
    /\ ds_result = [e \in Engines |-> "none"]

\* ------------------------------------------------------------- acquire
\* _acquire_lock: hand the INSERT to the client; the chain goes on when it returns
AcquireLock(e) ==
    /\ Execute(e, InsertStmt(e))
    /\ pc' = [pc EXCEPT ![e] = "write"]
    /\ attempt' = [attempt EXCEPT ![e] = "running"]
    /\ attempts' = [attempts EXCEPT ![e] = @ + 1]

\* acquire(): retries = [0], first _acquire_lock
Acquire(e) ==
    /\ pc[e] = "idle"
    /\ mode[e] = "direct"
    /\ retries' = [retries EXCEPT ![e] = 0]
    /\ AcquireLock(e)
    /\ UNCHANGED <<params, schema, store, response, elapsed, results, timers, waited, rel_result>>

\* with_lock: BasicLock(...) and lock.acquire(max_retry, timeout)
WithLock(e) ==
    /\ pc[e] = "idle"
    /\ mode[e] = "with_lock"
    /\ retries' = [retries EXCEPT ![e] = 0]
    /\ AcquireLock(e)
    /\ UNCHANGED <<params, schema, store, response, elapsed, results, timers, waited, rel_result>>

\* acquire's deferred fires with a failure; with_lock's lock_acquired is skipped
Errback(e, failure) ==
    /\ acq_result' = [acq_result EXCEPT ![e] = failure]
    /\ wl_result' = IF mode[e] = "with_lock"
                    THEN [wl_result EXCEPT ![e] = failure]
                    ELSE wl_result
    /\ pc' = [pc EXCEPT ![e] = IF mode[e] = "with_lock" THEN "done" ELSE "failed"]

\* the attempt's deferred failed: _lock_not_acquired
LockNotAcquired(e, failure) ==
    /\ attempt' = [attempt EXCEPT ![e] = failure]
    /\ IF ~Trap(failure, "BusyLockError")
       THEN /\ Errback(e, failure)
            /\ UNCHANGED <<retries, elapsed, timers, waited>>
       ELSE /\ retries' = [retries EXCEPT ![e] = @ + 1]
            /\ IF RetryAllowed(retries[e] + 1, max_retry[e])
               THEN /\ pc' = [pc EXCEPT ![e] = "wait"]
                    /\ elapsed' = [elapsed EXCEPT ![e] = 0]
                    /\ timers' = [timers EXCEPT ![e] = @ + 1]
                    /\ UNCHANGED waited
                    /\ UNCHANGED <<acq_result, wl_result>>
               ELSE /\ Errback(e, failure)
                    /\ UNCHANGED <<elapsed, timers, waited>>

\* the INSERT returns; on success _read_lock hands the SELECT to the client
WriteDone(e) ==
    /\ pc[e] = "write"
    /\ \E ok \in BOOLEAN :
        IF ok
        THEN /\ table' = Insert(table, StmtRow(pending[e]))
             /\ first_writer' = IF first_writer[pending[e].lockId] = "nobody"
                                THEN [first_writer EXCEPT ![pending[e].lockId] = e]
                                ELSE first_writer
             /\ Execute(e, SelectStmt(e))
             /\ pc' = [pc EXCEPT ![e] = "read"]
             /\ UNCHANGED <<retries, elapsed, acq_result, wl_result, attempt, timers, waited>>
        ELSE /\ LockNotAcquired(e, "InsertFailed")
             /\ UNCHANGED <<store, executed, pending>>
    /\ UNCHANGED <<params, schema, response, func_result, func_calls, releases, attempts, rel_result>>

\* the SELECT returns the lock's rows ordered by claimId
ReadDone(e) ==
    /\ pc[e] = "read"
    /\ \E ok \in BOOLEAN :
        IF ok
        THEN /\ response' = [response EXCEPT ![e] = Select(table, pending[e].lockId)]
             /\ pc' = [pc EXCEPT ![e] = "verify"]
             /\ UNCHANGED <<retries, elapsed, acq_result, wl_result, attempt, timers, waited>>
        ELSE /\ LockNotAcquired(e, "SelectFailed")
             /\ UNCHANGED response
    /\ UNCHANGED <<params, schema, store, executed, pending, func_result, func_calls, releases,
                   attempts, rel_result>>

\* release(): hand the DELETE of the own row to the client
Release(e) == Execute(e, DeleteStmt(e))

\* acquire's deferred fires with True; under with_lock, lock_acquired runs func
\* (fo: it returns, raises, or returns a pending deferred) and, once func's
\* outcome is there, release_lock
Callback(e, fo) ==
    /\ acq_result' = [acq_result EXCEPT ![e] = "ok"]
    /\ IF mode[e] = "direct"
       THEN /\ pc' = [pc EXCEPT ![e] = "acquired"]
            /\ UNCHANGED <<func_result, func_calls, releases, executed, pending>>
       ELSE /\ func_calls' = [func_calls EXCEPT ![e] = @ + 1]
            /\ IF fo = "pending"
               THEN /\ pc' = [pc EXCEPT ![e] = "work"]
                    /\ UNCHANGED <<func_result, releases, executed, pending>>
               ELSE /\ func_result' = [func_result EXCEPT ![e] = fo]
                    /\ releases' = [releases EXCEPT ![e] = @ + 1]
                    /\ Release(e)
                    /\ pc' = [pc EXCEPT ![e] = "release"]

\* _verify_lock on the SELECT's rows
VerifyLock(e) ==
    /\ pc[e] = "verify"
    /\ IF Len(response[e]) = 0
       THEN /\ LockNotAcquired(e, "IndexError")
            /\ UNCHANGED <<executed, pending, func_result, func_calls, releases>>
       ELSE IF VerifyOk(response[e], claim_id[e])
       THEN /\ attempt' = [attempt EXCEPT ![e] = "ok"]
            /\ \E fo \in {"value", "FuncError", "pending"} : Callback(e, fo)
            /\ UNCHANGED <<retries, elapsed, timers, waited, wl_result>>
       ELSE /\ Release(e)
            /\ pc' = [pc EXCEPT ![e] = "cleanup"]
            /\ UNCHANGED <<retries, elapsed, timers, waited, results, attempt>>
    /\ response' = [response EXCEPT ![e] = <<>>]
    /\ UNCHANGED <<params, schema, store, attempts, rel_result>>

\* the cleanup DELETE returns; only then is BusyLockError raised
CleanupDone(e) ==
    /\ pc[e] = "cleanup"
    /\ \E ok \in BOOLEAN :
        IF ok
        THEN /\ table' = Delete(table, StmtRow(pending[e]))
             /\ LockNotAcquired(e, "BusyLockError")
        ELSE /\ LockNotAcquired(e, "DeleteFailed")
             /\ UNCHANGED table
    /\ UNCHANGED <<params, schema, first_writer, response, executed, pending,
                   func_result, func_calls, releases, attempts, rel_result>>

\* the reactor's clock advances while a delayed call is not yet due
Tick ==
    /\ \E e \in Engines : pc[e] = "wait" /\ ~Due(e)
    /\ elapsed' = [e \in Engines |-> IF pc[e] = "wait" THEN elapsed[e] + 1 ELSE elapsed[e]]
    /\ UNCHANGED <<params, schema, store, pc, response, retries, executed, pending, results,
                   history>>

\* task.deferLater(reactor, timeout, _acquire_lock) fires
TimerFire(e) ==
    /\ pc[e] = "wait"
    /\ Due(e)
    /\ elapsed' = [elapsed EXCEPT ![e] = 0]
    /\ waited' = [waited EXCEPT ![e] = @ + elapsed[e]]
    /\ AcquireLock(e)
    /\ UNCHANGED <<params, schema, store, response, retries, results, timers, rel_result>>

\* ------------------------------------------------------------- with_lock
\* the deferred func returned fires; addBoth(release_lock)
FuncDone(e) ==
    /\ pc[e] = "work"
    /\ \E r \in {"value", "FuncError"} :
        func_result' = [func_result EXCEPT ![e] = r]
    /\ releases' = [releases EXCEPT ![e] = @ + 1]
    /\ Release(e)
    /\ pc' = [pc EXCEPT ![e] = "release"]
    /\ UNCHANGED <<params, schema, store, response, retries, elapsed, acq_result, wl_result,
                   func_calls, history>>

\* release_lock's DELETE returns; addCallback(lambda x: result)
ReleaseDone(e) ==
    /\ pc[e] = "release"
    /\ \E ok \in BOOLEAN :
        IF ok
        THEN /\ table' = Delete(table, StmtRow(pending[e]))
             /\ wl_result' = [wl_result EXCEPT ![e] = func_result[e]]
        ELSE /\ wl_result' = [wl_result EXCEPT ![e] = "DeleteFailed"]
             /\ UNCHANGED table
    /\ pc' = [pc EXCEPT ![e] = "done"]
    /\ UNCHANGED <<params, schema, first_writer, response, retries, elapsed, executed, pending,
                   acq_result, func_result, func_calls, releases, history>>

\* ------------------------------------------------------------- direct release
\* the caller calls release(), whether or not the engine holds the lock
CallRelease(e) ==
    /\ mode[e] = "direct"
    /\ pc[e] \in {"idle", "acquired", "failed", "released"}
    /\ Release(e)
    /\ pc' = [pc EXCEPT ![e] = "releasing"]
    /\ UNCHANGED <<params, schema, store, response, retries, elapsed, results, history>>

\* the caller's DELETE returns
ReleaseReturns(e) ==
    /\ pc[e] = "releasing"
    /\ \E ok \in BOOLEAN :
        IF ok
        THEN /\ table' = Delete(table, StmtRow(pending[e]))
             /\ rel_result' = [rel_result EXCEPT ![e] = "ok"]
        ELSE /\ rel_result' = [rel_result EXCEPT ![e] = "DeleteFailed"]
             /\ UNCHANGED table
    /\ pc' = [pc EXCEPT ![e] = "released"]
    /\ UNCHANGED <<params, schema, first_writer, response, retries, elapsed, executed, pending,
                   results, attempt, attempts, timers, waited>>

\* ------------------------------------------------------------- TTL
\* the store discards a row whose TTL has run out
Expire(row) ==
    /\ row \in table
    /\ table' = table \ {row}
    /\ UNCHANGED <<params, schema, first_writer, chain, results, history>>

\* ------------------------------------------------------------- specification
Next ==
    \/ \E e \in Engines : Acquire(e)
    \/ \E e \in Engines : WithLock(e)
    \/ \E e \in Engines : WriteDone(e)
    \/ \E e \in Engines : ReadDone(e)
    \/ \E e \in Engines : VerifyLock(e)
    \/ \E e \in Engines : CleanupDone(e)
    \/ Tick
    \/ \E e \in Engines : TimerFire(e)
    \/ \E e \in Engines : FuncDone(e)
    \/ \E e \in Engines : ReleaseDone(e)
    \/ \E e \in Engines : CallRelease(e)
    \/ \E e \in Engines : ReleaseReturns(e)
    \/ \E row \in [lockId : LockIds, claimId : ClaimIds] : Expire(row)

Spec == Init /\ [][Next]_vars

\* every statement handed to the client returns and its callbacks run, the
\* reactor's clock advances while a delayed call is not yet due, and a due
\* call is made
Fairness ==
    /\ \A e \in Engines :
         /\ WF_vars(WriteDone(e))
         /\ WF_vars(ReadDone(e))
         /\ WF_vars(VerifyLock(e))
         /\ WF_vars(CleanupDone(e))
         /\ WF_vars(TimerFire(e))
    /\ WF_vars(Tick)

FairSpec == Init /\ [][Next]_vars /\ Fairness

\* the engines on a table whose records outlive every attempt: no record
\* reaches its TTL
NoExpiryNext ==
    \/ \E e \in Engines : Acquire(e)
    \/ \E e \in Engines : WithLock(e)
    \/ \E e \in Engines : WriteDone(e)
    \/ \E e \in Engines : ReadDone(e)
    \/ \E e \in Engines : VerifyLock(e)
    \/ \E e \in Engines : CleanupDone(e)
    \/ Tick
    \/ \E e \in Engines : TimerFire(e)
    \/ \E e \in Engines : FuncDone(e)
    \/ \E e \in Engines : ReleaseDone(e)
    \/ \E e \in Engines : CallRelease(e)
    \/ \E e \in Engines : ReleaseReturns(e)

NoExpirySpec == Init /\ [][NoExpiryNext]_vars

\* ------------------------------------------------------------- schema calls
\* ensure_schema(client, table_name): hand CREATE TABLE to the client
EnsureSchema(c) ==
    /\ sch_pc[c] = "idle"
    /\ sch_pc' = [sch_pc EXCEPT ![c] = "create"]
    /\ es_result' = [es_result EXCEPT ![c] = "none"]
    /\ UNCHANGED <<params, store, chain, results, history,
                   created, create_failure, ds_result>>

\* the CREATE TABLE returns; a failure goes through _errback
CreateDone(c) ==
    /\ sch_pc[c] = "create"
    /\ \E f \in CreateTable(created) :
         /\ create_failure' = [create_failure EXCEPT ![c] = f]
         /\ created' = (created \/ f = NoFailure)
         /\ es_result' = [es_result EXCEPT ![c] =
                             IF f = NoFailure THEN "ok" ELSE SchemaErrback(f)]
    /\ sch_pc' = [sch_pc EXCEPT ![c] = "idle"]
    /\ UNCHANGED <<params, store, chain, results, history, ds_result>>

\* drop_schema(client, table_name): hand DROP TABLE to the client
DropSchema(c) ==
    /\ sch_pc[c] = "idle"
    /\ sch_pc' = [sch_pc EXCEPT ![c] = "drop"]
    /\ ds_result' = [ds_result EXCEPT ![c] = "none"]
    /\ UNCHANGED <<params, store, chain, results, history,
                   created, create_failure, es_result>>

\* the DROP TABLE returns; its failure is the caller's
DropDone(c) ==
    /\ sch_pc[c] = "drop"
    /\ \E f \in DropTable(created) :
         /\ created' = (created /\ f # NoFailure)
         /\ table' = IF f = NoFailure THEN {} ELSE table
         /\ ds_result' = [ds_result EXCEPT ![c] =
                             IF f = NoFailure THEN "ok" ELSE f.why]
    /\ sch_pc' = [sch_pc EXCEPT ![c] = "idle"]
    /\ UNCHANGED <<params, first_writer, chain, results, history,
                   create_failure, es_result>>

\* the callers of the schema methods, before any engine uses the table
SchemaInit ==
    /\ Init
    /\ lock_id = [e \in Engines |-> "jobs-queue"]
    /\ mode = [e \in Engines |-> "direct"]
    /\ max_retry = [e \in Engines |-> 0]
    /\ timeout = [e \in Engines |-> 1]

SchemaNext ==
    \/ \E c \in Engines : EnsureSchema(c)
    \/ \E c \in Engines : CreateDone(c)
    \/ \E c \in Engines : DropSchema(c)
    \/ \E c \in Engines : DropDone(c)

SchemaSpec == SchemaInit /\ [][SchemaNext]_vars

\* ------------------------------------------------------------- properties
\* the engine has seen acquire() succeed and has not yet issued its release
Holding(e) == acq_result[e] = "ok" /\ pc[e] \in {"acquired", "work"}

Live(e) == OwnRow(e) \in table

Finished(e) == acq_result[e] # "none"

\* C1: two engines on the same lock name never both hold the lock (acquire
\* succeeded, release not yet issued) while both of their rows are in the table.
C1_MutualExclusion ==
    \A a, b \in Engines :
        (a # b /\ lock_id[a] = lock_id[b])
            => ~(Holding(a) /\ Holding(b) /\ Live(a) /\ Live(b))

\* C2: an acquire() never makes more than max_retry + 1 attempts; it fails with
\* BusyLockError only after exactly max_retry + 1 attempts that all ended busy,
\* and a finished call whose attempts all ended busy has failed with BusyLockError.
C2_RetryBound ==
    \A e \in Engines :
        /\ attempts[e] <= max_retry[e] + 1
        /\ acq_result[e] = "BusyLockError"
              => attempts[e] = max_retry[e] + 1 /\ retries[e] = max_retry[e] + 1
        /\ (Finished(e) /\ retries[e] = attempts[e])
              => acq_result[e] = "BusyLockError" /\ attempts[e] = max_retry[e] + 1

C2_Witness ==
    \E e \in Engines :
        /\ acq_result[e] = "BusyLockError"
        /\ max_retry[e] >= 1
        /\ attempts[e] = max_retry[e] + 1

\* C3: under with_lock, once the unit of work has failed, release() has been
\* issued exactly once, with_lock's deferred has not fired before the release
\* returned, and it then fires with the unit of work's failure.
C3_ReleaseThenFailure ==
    \A e \in Engines :
        (mode[e] = "with_lock" /\ func_result[e] = "FuncError")
            => /\ releases[e] = 1
               /\ pc[e] \in {"release", "done"}
               /\ pc[e] = "release" => wl_result[e] = "none"
               /\ pc[e] = "done" => wl_result[e] = "FuncError"

\* C4: under with_lock a failed acquire never runs the unit of work and is
\* with_lock's result; with max_retry = 0 a finished acquire has made one attempt
\* and scheduled no timer, and an attempt that ended busy (another claim came
\* first in the read and the cleanup DELETE returned) gives BusyLockError.
C4_AcquireFailurePropagates ==
    \A e \in Engines :
        mode[e] = "with_lock" =>
            /\ (Finished(e) /\ acq_result[e] # "ok")
                  => /\ func_calls[e] = 0
                     /\ func_result[e] = "none"
                     /\ releases[e] = 0
                     /\ pc[e] = "done"
                     /\ wl_result[e] = acq_result[e]
            /\ (max_retry[e] = 0 /\ Finished(e))
                  => attempts[e] = 1 /\ timers[e] = 0
            /\ (max_retry[e] = 0 /\ attempt[e] = "BusyLockError")
                  => wl_result[e] = "BusyLockError" /\ timers[e] = 0

C4_Witness ==
    \E e, o \in Engines :
        /\ mode[e] = "with_lock"
        /\ max_retry[e] = 0
        /\ wl_result[e] = "BusyLockError"
        /\ func_calls[e] = 0
        /\ o # e /\ lock_id[o] = lock_id[e] /\ claim_id[o] < claim_id[e]
        /\ Holding(o) /\ Live(o)

\* C5: under with_lock, a unit of work that returned a result is with_lock's
\* result, whatever the release DELETE returned.
C5_ResultDelivered ==
    \A e \in Engines :
        (mode[e] = "with_lock" /\ pc[e] = "done" /\ func_result[e] = "value")
            => wl_result[e] = "value"

\* C6: a step in which the INSERT, the SELECT or the cleanup DELETE of an attempt
\* returns a storage error fires acquire's deferred with that error, leaves the
\* retry counter alone and schedules nothing; afterwards the call makes no
\* further attempt.
C6_StorageErrorNotRetried ==
    [][\A e \in Engines :
          /\ (pc[e] \in {"write", "read", "cleanup"} /\ attempt'[e] \in StorageErrors)
                => /\ acq_result'[e] = attempt'[e]
                   /\ pc'[e] \in {"failed", "done"}
                   /\ retries'[e] = retries[e]
                   /\ timers'[e] = timers[e]
                   /\ attempts'[e] = attempts[e]
          /\ acq_result[e] \in StorageErrors
                => /\ acq_result'[e] = acq_result[e]
                   /\ attempts'[e] = attempts[e]
                   /\ retries'[e] = retries[e]
                   /\ timers'[e] = timers[e]]_vars

C6_Witness ==
    /\ \E e \in Engines : acq_result[e] = "DeleteFailed" /\ retries[e] < max_retry[e]
    /\ \E e \in Engines : acq_result[e] \in {"InsertFailed", "SelectFailed"}
                            /\ retries[e] < max_retry[e]

\* C7: once an attempt cycle has failed, and until the next one starts, the
\* engine's own row is not in the table.
C7_NoOwnRowAfterFailedAttempt ==
    \A e \in Engines : attempt[e] \in Failures => ~Live(e)

\* C8: when with_lock has completed after a successful acquire and its release
\* DELETE succeeded (its result is the unit of work's outcome), the table holds
\* no row with the engine's lock name and claim id.
C8_NoResidualRecord ==
    \A e \in Engines :
        (mode[e] = "with_lock" /\ pc[e] = "done" /\ acq_result[e] = "ok"
            /\ wl_result[e] \in {"value", "FuncError"})
            => ~Live(e)

C8_Witness ==
    /\ \E e \in Engines :
          /\ mode[e] = "with_lock" /\ pc[e] = "done" /\ acq_result[e] = "ok"
          /\ wl_result[e] = "value" /\ retries[e] >= 1
    /\ \E e \in Engines :
          /\ mode[e] = "with_lock" /\ pc[e] = "done" /\ acq_result[e] = "ok"
          /\ wl_result[e] = "FuncError"

\* the scenario of C9: a and b contend for one lock name, a's claim is the older
\* one, a's INSERT landed first, both are in their first attempt, no storage call
\* of either attempt failed, and a's row has been in the table ever since (it was
\* inserted once and is there)
C9_Scenario(a, b) ==
    /\ lock_id[a] = lock_id[b]
    /\ claim_id[a] < claim_id[b]
    /\ first_writer[lock_id[a]] = a
    /\ attempts[a] = 1 /\ attempts[b] = 1
    /\ attempt[a] \notin StorageErrors /\ attempt[b] \notin StorageErrors
    /\ Live(a)

\* C9: in that scenario a's attempt does not fail, b's read returns a's row
\* first, b deletes no row but its own, and b's attempt, once over, has failed
\* with BusyLockError.
C9_FirstWriterWins ==
    \A a, b \in Engines :
        C9_Scenario(a, b) =>
            /\ attempt[a] \in {"running", "ok"}
            /\ pc[a] # "cleanup"
            /\ pc[a] = "verify" => response[a][1] = OwnRow(a)
            /\ pc[b] = "verify" => response[b] = <<OwnRow(a), OwnRow(b)>>
                                     \/ response[b] = <<OwnRow(a)>>
            /\ \A st \in executed[b] : st.stmt = "DELETE" => StmtRow(st) = OwnRow(b)
            /\ attempt[b] \in {"running", "BusyLockError"}
            /\ acq_result[b] \in {"none", "BusyLockError"}
            /\ pc[b] \notin {"acquired", "work", "release"}

C9_Witness ==
    \E a, b \in Engines :
        /\ C9_Scenario(a, b)
        /\ attempt[a] = "ok"
        /\ attempt[b] = "BusyLockError"
        /\ max_retry[b] = 0 /\ acq_result[b] = "BusyLockError"
        /\ [stmt |-> "DELETE", lockId |-> lock_id[b], claimId |-> claim_id[b]]
              \in executed[b]
        /\ ~Live(b)

\* C10: every INSERT and every DELETE an engine hands to the client, in the
\* first attempt, in every retry and in the release, carries the claim id the
\* engine was constructed with.
C10_OneClaimId ==
    \A e \in Engines :
        \A st \in executed[e] :
            st.stmt \in {"INSERT", "DELETE"}
                => st.claimId = claim_id[e] /\ st.lockId = lock_id[e]

C10_Witness ==
    \E e \in Engines :
        /\ attempts[e] >= 2
        /\ acq_result[e] = "ok"
        /\ pc[e] \in {"done", "released"}
        /\ {st.stmt : st \in executed[e]} = {"INSERT", "SELECT", "DELETE"}

\* C11: release() always hands the client the DELETE of (lock name, own claim
\* id); a release that returns without a storage error leaves no record of the
\* engine and touches no other record, whether or not the record was there
\* (never acquired, already released, expired), and a release that follows a
\* successful release leaves the table as it found it.
C11_ReleaseIdempotent ==
    [][\A e \in Engines :
         /\ (pc[e] # "releasing" /\ pc'[e] = "releasing")
                => pending'[e] = DeleteStmt(e)
         /\ (pc[e] = "releasing" /\ pc'[e] = "released" /\ rel_result'[e] = "ok")
                => /\ OwnRow(e) \notin table'
                   /\ table' = table \ {OwnRow(e)}
                   /\ ~Live(e) => table' = table
                   /\ rel_result[e] = "ok" => table' = table]_vars

\* a second release in a row is pending, on a record that is no longer there,
\* while the other engine's record is
C11_Witness ==
    \E e \in Engines :
        /\ pc[e] = "releasing" /\ rel_result[e] = "ok" /\ ~Live(e)
        /\ \E o \in Engines \ {e} : lock_id[o] = lock_id[e] /\ Live(o)

\* C12: a step of an engine (any step that moves its callback chain: attempt
\* cycle, cleanup, retry, release, with_lock) adds or removes no record but
\* the engine's own: every record of another claim id or another lock name is
\* in the table after the step exactly if it was before, and every INSERT or
\* DELETE the engine hands to the client is keyed by its own lock name and
\* claim id.
C12_OwnershipFrame ==
    [][\A e \in Engines :
         pc'[e] # pc[e] =>
            /\ \A r \in [lockId : LockIds, claimId : ClaimIds] :
                 r # OwnRow(e) => (r \in table' <=> r \in table)
            /\ pending'[e].stmt \in {"INSERT", "DELETE"}
                 => StmtRow(pending'[e]) = OwnRow(e)]_vars

\* an engine has run its contention cleanup and its record is gone, while the
\* record of the other engine of the same lock is still there
C12_Witness ==
    \E e \in Engines : \E o \in Engines \ {e} :
        /\ lock_id[o] = lock_id[e]
        /\ attempt[e] = "BusyLockError" /\ ~Live(e)
        /\ Live(o)

\* C13: ensure_schema swallows the table-already-exists failure and no other:
\* once the call has returned, its deferred carries no failure exactly if the
\* CREATE TABLE succeeded or failed because the table exists; every other
\* failure of the statement is the caller's failure.
C13_OnlyAlreadyExistsSwallowed ==
    \A c \in Engines :
        es_result[c] # "none" =>
            IF create_failure[c] \in {NoFailure, AlreadyExists}
            THEN es_result[c] = "ok"
            ELSE es_result[c] = create_failure[c].why

\* the rows of a response, as a set
RowsOf(rows) == {rows[i] : i \in 1..Len(rows)}

\* C14: the read returns exactly the live records of the engine's lock name
\* (no record of another lock name), and the attempt that verifies this
\* response succeeds exactly if the engine's own claim id is among them and is
\* the smallest of them.
C14_WinnerRule ==
    [][\A e \in Engines :
         /\ (pc[e] = "read" /\ pc'[e] = "verify")
                => /\ RowsOf(response'[e]) = {r \in table : r.lockId = lock_id[e]}
                   /\ Len(response'[e]) = Cardinality(RowsOf(response'[e]))
         /\ (pc[e] = "verify" /\ pc'[e] # "verify")
                => (attempt'[e] = "ok" <=>
                        /\ OwnRow(e) \in RowsOf(response[e])
                        /\ \A r \in RowsOf(response[e]) : claim_id[e] <= r.claimId)]_vars

\* an engine is about to verify a response holding its own claim first and the
\* other engine's claim behind it, with no storage error so far
C14_Witness ==
    \E e \in Engines :
        /\ pc[e] = "verify"
        /\ Len(response[e]) = 2
        /\ response[e][1] = OwnRow(e)
        /\ \A o \in Engines : attempt[o] \notin StorageErrors

\* the first row of the response an engine is verifying is not its own claim
Contended(e) ==
    pc[e] = "verify" /\ Len(response[e]) > 0 /\ response[e][1] # OwnRow(e)

\* C15 as stated: every contended attempt ends as BusyLockError, whatever the
\* cleanup DELETE returned.
C15_AlwaysBusyLock ==
    [][\A e \in Engines :
         (pc[e] = "cleanup" /\ pc'[e] # "cleanup")
            => attempt'[e] = "BusyLockError"]_vars

\* C15, amended: a contended verify hands the client one DELETE of the own
\* record and reports nothing yet; the cleanup is entered in no other way and
\* no second DELETE follows it; BusyLockError is reported only on the return
\* of that DELETE and with the own record gone; a cleanup DELETE that fails
\* makes its storage error the outcome of the attempt, not BusyLockError.
C15_ContendedOrdering ==
    [][\A e \in Engines :
         /\ (Contended(e) /\ pc'[e] # "verify")
                => /\ pc'[e] = "cleanup"
                   /\ pending'[e].stmt = "DELETE"
                   /\ StmtRow(pending'[e]) = OwnRow(e)
                   /\ attempt'[e] = "running" /\ acq_result'[e] = "none"
         /\ (pc[e] # "cleanup" /\ pc'[e] = "cleanup") => Contended(e)
         /\ (pc[e] = "cleanup" /\ pc'[e] # "cleanup")
                => /\ attempt'[e] \in {"BusyLockError", "DeleteFailed"}
                   /\ attempt'[e] = "BusyLockError" => OwnRow(e) \notin table'
                   /\ attempt'[e] = "DeleteFailed" => table' = table
                   /\ pending'[e] = pending[e]
         /\ (attempt[e] # "BusyLockError" /\ attempt'[e] = "BusyLockError")
                => pc[e] = "cleanup"]_vars

\* a contended attempt whose cleanup DELETE failed: the storage error is the
\* outcome and the own record is still in the table
C15_Witness ==
    \E e \in Engines :
        /\ attempt[e] = "DeleteFailed" /\ acq_result[e] = "DeleteFailed"
        /\ Live(e)
        /\ \E o \in Engines \ {e} : lock_id[o] = lock_id[e] /\ Live(o)

\* acquire() has given up under contention: its deferred fired with BusyLockError
Exhausted(e) == acq_result[e] = "BusyLockError"

\* C16 as stated: an exhausted acquire() has waited exactly max_retry * timeout
\* on the clock.
C16_WaitedExactly ==
    \A e \in Engines : Exhausted(e) => waited[e] = max_retry[e] * timeout[e]

\* C16, amended: the timer of a retry is started, at zero, by the BusyLock
\* outcome of the attempt before it, and the retry starts only once the clock
\* has advanced by the full delay since then, possibly later but never
\* earlier; an exhausted acquire() has run max_retry timers and has waited at
\* least max_retry * timeout on the clock.
C16_RetrySpacing ==
    /\ [](\A e \in Engines :
            Exhausted(e) => /\ timers[e] = max_retry[e]
                            /\ attempts[e] = max_retry[e] + 1
                            /\ waited[e] >= max_retry[e] * timeout[e])
    /\ [][\A e \in Engines :
            /\ (pc[e] # "wait" /\ pc'[e] = "wait")
                   => attempt'[e] = "BusyLockError" /\ elapsed'[e] = 0
            /\ (pc[e] = "wait" /\ pc'[e] # "wait")
                   => /\ elapsed[e] >= timeout[e]
                      /\ waited'[e] = waited[e] + elapsed[e]
                      /\ attempts'[e] = attempts[e] + 1]_vars

\* an acquire() with a retry budget and a delay of more than one tick has
\* given up after waiting out every timer
C16_Witness ==
    \E e \in Engines :
        /\ Exhausted(e)
        /\ max_retry[e] >= 1 /\ timeout[e] >= 2
        /\ waited[e] >= max_retry[e] * timeout[e]

\* every acquire() call that was made fires its deferred
Terminates == \A e \in Engines : (attempts[e] >= 1) ~> Finished(e)

\* at most max_retry + 1 attempts are made
AtMostMaxRetryPlusOne == [](\A e \in Engines : attempts[e] <= max_retry[e] + 1)

\* a deferred that has fired never fires again and no attempt follows it
FiresOnce ==
    [][\A e \in Engines :
         Finished(e) => acq_result'[e] = acq_result[e] /\ attempts'[e] = attempts[e]]_vars

\* the deferred fires with success, BusyLockError or a storage error
ListedOutcome ==
    [](\A e \in Engines :
         acq_result[e] \in {"none", "ok", "BusyLockError"} \cup StorageErrors)

\* C17: with every storage call returning and every timer firing, each
\* acquire() call eventually fires its deferred, with success, BusyLockError
\* or a storage error and nothing else, after at most max_retry + 1 attempts,
\* and a deferred that has fired never fires again.
C17_Termination == Terminates /\ AtMostMaxRetryPlusOne /\ FiresOnce /\ ListedOutcome

\* C18: an engine waiting on its retry timer has no record in the table, and
\* a read made by another engine while it waits returns no record of it.
C18_NoRecordWhileWaiting ==
    /\ [](\A e \in Engines : pc[e] = "wait" => ~Live(e))
    /\ [][\A e \in Engines : \A o \in Engines \ {e} :
            (pc[e] = "wait" /\ pc[o] = "read" /\ pc'[o] = "verify")
                => OwnRow(e) \notin RowsOf(response'[o])]_vars

\* an engine waits for its retry while the other engine of the same lock has
\* read its own record alone
C18_Witness ==
    \E e \in Engines : \E o \in Engines \ {e} :
        /\ pc[e] = "wait" /\ lock_id[o] = lock_id[e]
        /\ pc[o] = "verify" /\ response[o] = <<OwnRow(o)>>
        /\ executed[o] \cap {DeleteStmt(o)} = {}

\* the engine's INSERT has landed at least once: the SELECT follows it
HasWritten(e) == SelectStmt(e) \in executed[e]

\* no record of the engine's lock name was ever written with a smaller claim id
SmallestEverWritten(e) ==
    \A o \in Engines \ {e} :
        (lock_id[o] = lock_id[e] /\ HasWritten(o)) => claim_id[e] < claim_id[o]

\* the engines that have attempted lock name l
Contenders(l) == {e \in Engines : lock_id[e] = l /\ attempts[e] >= 1}

\* C19: with no TTL expiry, the engine whose claim id is the smallest of all
\* records ever written for its lock name never finds itself contended and
\* never receives BusyLockError, in any interleaving; so the contenders of a
\* lock name never all end with BusyLockError.
C19_SmallestNeverBusy ==
    /\ \A e \in Engines :
         SmallestEverWritten(e) =>
            /\ retries[e] = 0 /\ pc[e] \notin {"cleanup", "wait"}
            /\ attempt[e] # "BusyLockError" /\ acq_result[e] # "BusyLockError"
    /\ \A l \in LockIds :
         Contenders(l) # {} => \E e \in Contenders(l) : acq_result[e] # "BusyLockError"

\* two engines contended for one lock name without any storage error: the one
\* with the smaller claim id holds it, the other has given up with
\* BusyLockError after its retries
C19_Witness ==
    \E e \in Engines : \E o \in Engines \ {e} :
        /\ lock_id[o] = lock_id[e] /\ claim_id[e] < claim_id[o]
        /\ HasWritten(e) /\ HasWritten(o)
        /\ acq_result[e] = "ok" /\ acq_result[o] = "BusyLockError"
        /\ retries[o] = max_retry[o] + 1 /\ max_retry[o] >= 1

\* C20: an attempt cycle in which no storage call returned an error ends in
\* success or BusyLockError and in nothing else, also when the read returned
\* an empty row set.
C20_SuccessOrBusyLock ==
    \A e \in Engines :
        attempt[e] \notin {"none", "running"} \cup StorageErrors
            => attempt[e] \in {"ok", "BusyLockError"}

====
